---- MODULE Spec2Model ----
(***************************************************************************)
(* Model of deep_faker: the versioned entity store (entity_manager.py),    *)
(* the flow contexts (actions.py) and the tick scheduler                   *)
(* (simulation.py, Simulation.run).                                        *)
(*                                                                         *)
(* Times are integers (one unit = one tick of the model clock).  Python's  *)
(* None is the integer NoneV, which no field value and no time takes.      *)
(* A flow name is the index of its template in Flows.                      *)
(***************************************************************************)
EXTENDS Integers, Sequences, FiniteSets, TLC

(***************************************************************************)
(* Bounds of the model.                                                    *)
(***************************************************************************)
MaxTime == 1          \* times offered to the store operations: 0..MaxTime
MaxUsers == 6         \* user ids the simulation can hand out: 1..MaxUsers
MaxVersions == 2      \* versions kept in the store specification, all entities together

NoneV == 0 - 99       \* Python None

(***************************************************************************)
(* Entity types, ids and state fields (base.py, Entity / StateField).      *)
(***************************************************************************)
Types == {"User", "Device"}
UserIds == 1..MaxUsers
DeviceIds == {1}
Keys == ({"User"} \X UserIds) \cup ({"Device"} \X DeviceIds)

DefaultBalance == 1000

\* Entity.__init__: every state field of the type starts at its default.
DefaultState(type) ==
    IF type = "User"
    THEN [f \in {"balance", "last_login"} |->
             IF f = "balance" THEN DefaultBalance ELSE NoneV]
    ELSE [f \in {"count"} |-> 0]

VARIABLES
    flows,             \* Simulation.flows: the registered templates (indices of Flows)
    initial_entities,  \* Simulation.initial_entities: the number of initial users
    n_flows,           \* Simulation.n_flows: the slots of a tick
    uuid_stream,       \* the values uuid.uuid4 returns in this run (not seeded)
    pc,                \* position in Simulation.run
    ti,                \* run: start of the current tick
    tj,                \* run: end of the current tick
    global_clock,      \* GlobalContext.global_clock
    slot,              \* run: slots of the tick already drawn
    active_flows,      \* run: the list active_flows of flow_info records
    idx,               \* run: index of the for loop over active_flows (1-based)
    completed_flows,   \* run: the list completed_flows (1-based indices)
    next_sid,          \* number of flow contexts started so far
    outputs,           \* events received by each output, in order
    closed,            \* outputs already closed
    abort_exc,         \* exception that left run(), or "none"
    removed,           \* history: the flow_info records popped in the current tick
    entity_states,     \* EntityManager.entity_states: key -> list of versions
    active_entities,   \* EntityManager.active_entities: key -> bool
    last_exc,          \* exception raised by the last store call, or "none"
    nreg,              \* history: add_entity calls per key
    nmut,              \* history: insert_state calls per key that returned
    failed,            \* history: some insert_state call for the key raised
    entity,            \* an Entity object: _state, _primary_key_value, attributes
    calls,             \* history: update_state calls made on entity
    flow_ctx,          \* the FlowContext handed to _process_new_event
    new_event,         \* the NewEvent action handed to _process_new_event
    event              \* the event _process_new_event sends to the outputs

store_vars == <<entity_states, active_entities, last_exc, nreg, nmut, failed>>
run_vars == <<flows, initial_entities, n_flows, uuid_stream, pc, ti, tj, global_clock, slot, active_flows, idx,
              completed_flows, next_sid, outputs, closed, abort_exc, removed>>
unit_vars == <<entity, calls, flow_ctx, new_event, event>>
vars == <<run_vars, store_vars, unit_vars>>

(***************************************************************************)
(* EntityState and the read operations of EntityManager.                   *)
(***************************************************************************)
EntityState(state, valid_from) ==
    [state |-> state, valid_from |-> valid_from, valid_to |-> NoneV]

is_valid_at(v, time) ==
    IF time < v.valid_from THEN FALSE
    ELSE IF v.valid_to # NoneV /\ time >= v.valid_to THEN FALSE
    ELSE TRUE

\* "key in self.entity_states": add_entity appends at once, so a key is in
\* the dict exactly when its list is not empty.
Registered(es, key) == Len(es[key]) > 0

\* get_entity_state(type, id) without a time: index of the last version
\* with valid_to None, else of the last version; 0 stands for None.
get_entity_state_current(es, key) ==
    IF ~Registered(es, key) THEN 0
    ELSE LET open == {i \in 1..Len(es[key]) : es[key][i].valid_to = NoneV}
         IN IF open # {}
            THEN CHOOSE i \in open : \A j \in open : j <= i
            ELSE Len(es[key])

\* get_entity_state(type, id, time): index of the first version of the list
\* that is valid at time; 0 stands for None.
get_entity_state(es, key, time) ==
    IF ~Registered(es, key) THEN 0
    ELSE LET ok == {i \in 1..Len(es[key]) : is_valid_at(es[key][i], time)}
         IN IF ok # {}
            THEN CHOOSE i \in ok : \A j \in ok : i <= j
            ELSE 0

\* state.get(field): None when the field is absent.
StateGet(state, field) ==
    IF field \in DOMAIN state THEN state[field] ELSE NoneV

\* A condition whose ordering operators compare None like a number.
CondHolds_NoneOrdered(state, cond) ==
    LET entity_value == StateGet(state, cond[1])
        operation == cond[2]
        value == cond[3]
    IN CASE operation \in {"is", "="} -> entity_value = value
         [] operation \in {"is_not", "!="} -> entity_value # value
         [] operation \in {"greater_than", ">"} -> entity_value > value
         [] operation \in {"less_than", "<"} -> entity_value < value
         [] operation = "in" -> entity_value \in value
         [] OTHER -> TRUE

\* One condition (field, operation, value) of a where list.
CondHolds(state, cond) ==
    LET entity_value == StateGet(state, cond[1])
        operation == cond[2]
        value == cond[3]
    IN CASE operation \in {"is", "="} -> entity_value = value
         [] operation \in {"is_not", "!="} -> entity_value # value
         [] operation \in {"greater_than", ">"} ->
                entity_value # NoneV /\ entity_value > value
         [] operation \in {"less_than", "<"} ->
                entity_value # NoneV /\ entity_value < value
         [] operation = "in" -> entity_value \in value
         [] OTHER -> TRUE

\* query(type, where, time): the ids of the type whose version at time
\* (the current one when time is NoneV) satisfies every condition.
VersionIdx(es, key, time) ==
    IF time = NoneV THEN get_entity_state_current(es, key)
    ELSE get_entity_state(es, key, time)

query(es, type, where, time) ==
    {k \in Keys :
        /\ k[1] = type
        /\ Registered(es, k)
        /\ VersionIdx(es, k, time) # 0
        /\ \A c \in 1..Len(where) :
              CondHolds(es[k][VersionIdx(es, k, time)].state, where[c])}

\* get_available_entities that reads the flow name of the version at time.
get_available_entities_ByClaimField(es, ae, type, where, time) ==
    {k \in query(es, type, where, time) :
        StateGet(es[k][VersionIdx(es, k, time)].state, "flow_name") = NoneV}

\* get_available_entities: the query result without the active entities.
get_available_entities(es, ae, type, where, time) ==
    {k \in query(es, type, where, time) : ~ae[k]}

(***************************************************************************)
(* The write operations of EntityManager.                                  *)
(***************************************************************************)
SetField(state, field, value) ==
    [f \in (DOMAIN state) \cup {field} |->
        IF f = field THEN value ELSE state[f]]

\* The update loop of insert_state from update i on.  ok is FALSE when an
\* add or subtract meets a field holding None (TypeError).
RECURSIVE apply_updates(_, _, _)
apply_updates(state, updates, i) ==
    IF i > Len(updates) THEN [ok |-> TRUE, state |-> state]
    ELSE LET field == updates[i][1]
             operation == updates[i][2]
             value == updates[i][3]
             current_value ==
                 IF field \in DOMAIN state THEN state[field] ELSE 0
         IN IF operation \in {"add", "subtract"}
            THEN IF current_value = NoneV
                 THEN [ok |-> FALSE, state |-> state]
                 ELSE apply_updates(
                        SetField(state, field,
                                 IF operation = "add"
                                 THEN current_value + value
                                 ELSE current_value - value),
                        updates, i + 1)
            ELSE apply_updates(SetField(state, field, value), updates, i + 1)

\* add_entity: append an initial open version and mark the key available.
add_entity_es(es, key, state, time) ==
    [es EXCEPT ![key] = Append(@, EntityState(state, time))]

\* insert_state on a registered key: the exception it raises, or "none".
insert_state_exc(es, key, updates) ==
    IF ~Registered(es, key) THEN "ValueError"
    ELSE LET cur == get_entity_state_current(es, key)
         IN IF apply_updates(es[key][cur].state, updates, 1).ok
            THEN "none" ELSE "TypeError"

\* insert_state that leaves the current version open.
insert_state_es_KeepOpen(es, key, updates, time) ==
    IF ~Registered(es, key) THEN es
    ELSE LET cur == get_entity_state_current(es, key)
             res == apply_updates(es[key][cur].state, updates, 1)
         IN IF res.ok
            THEN [es EXCEPT ![key] = Append(@, EntityState(res.state, time))]
            ELSE es

\* insert_state that derives the new state from the first version.
insert_state_es_FromFirst(es, key, updates, time) ==
    IF ~Registered(es, key) THEN es
    ELSE LET cur == get_entity_state_current(es, key)
             closed_es ==
                 IF es[key][cur].valid_to = NoneV
                 THEN [es EXCEPT ![key][cur].valid_to = time]
                 ELSE es
             res == apply_updates(es[key][1].state, updates, 1)
         IN IF res.ok
            THEN [closed_es EXCEPT ![key] = Append(@, EntityState(res.state, time))]
            ELSE closed_es

\* insert_state that writes the updated fields into the current version.
insert_state_es_InPlace(es, key, updates, time) ==
    IF ~Registered(es, key) THEN es
    ELSE LET cur == get_entity_state_current(es, key)
             res == apply_updates(es[key][cur].state, updates, 1)
         IN IF res.ok
            THEN [es EXCEPT ![key][cur].state = res.state]
            ELSE es

\* insert_state: the store it leaves.  The current version is closed before
\* the updates are applied, so a TypeError leaves it closed.
insert_state_es(es, key, updates, time) ==
    IF ~Registered(es, key) THEN es
    ELSE LET cur == get_entity_state_current(es, key)
             closed_es ==
                 IF es[key][cur].valid_to = NoneV
                 THEN [es EXCEPT ![key][cur].valid_to = time]
                 ELSE es
             res == apply_updates(es[key][cur].state, updates, 1)
         IN IF res.ok
            THEN [closed_es EXCEPT ![key] = Append(@, EntityState(res.state, time))]
            ELSE closed_es

(***************************************************************************)
(* Specification of the store alone: any caller of EntityManager.          *)
(***************************************************************************)
UpdateLists ==
    { << <<"balance", "add", 100>> >>,
      << <<"balance", "is", 500>> >>,
      << <<"last_login", "add", 1>> >>,
      << <<"visits", "add", 2>>, <<"visits", "subtract", 1>> >> }

\* No Entity object and no event under construction.
UnitIdle ==
    /\ entity = NoneV
    /\ calls = <<>>
    /\ flow_ctx = NoneV
    /\ new_event = NoneV
    /\ event = NoneV

\* A fresh EntityManager and no run.
SimIdle ==
    /\ entity_states = [k \in Keys |-> <<>>]
    /\ active_entities = [k \in Keys |-> FALSE]
    /\ last_exc = "none"
    /\ nreg = [k \in Keys |-> 0]
    /\ nmut = [k \in Keys |-> 0]
    /\ failed = [k \in Keys |-> FALSE]
    /\ flows = {}
    /\ initial_entities = 0
    /\ n_flows = 0
    /\ uuid_stream = 0
    /\ pc = "store"
    /\ ti = 0
    /\ tj = 0
    /\ global_clock = 0
    /\ slot = 0
    /\ active_flows = <<>>
    /\ idx = 0
    /\ completed_flows = <<>>
    /\ next_sid = 0
    /\ outputs = <<>>
    /\ closed = {}
    /\ abort_exc = "none"
    /\ removed = <<>>

StoreInit == SimIdle /\ UnitIdle

TotalVersions(es) == Len(es[<<"User", 1>>]) + Len(es[<<"User", 2>>])

add_entity(key, time) ==
    /\ TotalVersions(entity_states) < MaxVersions
    /\ entity_states' = add_entity_es(entity_states, key, DefaultState(key[1]), time)
    /\ active_entities' = [active_entities EXCEPT ![key] = FALSE]
    /\ last_exc' = "none"
    /\ nreg' = [nreg EXCEPT ![key] = @ + 1]
    /\ UNCHANGED <<nmut, failed>>

insert_state(key, updates, time) ==
    /\ TotalVersions(entity_states) < MaxVersions
    /\ entity_states' = insert_state_es(entity_states, key, updates, time)
    /\ last_exc' = insert_state_exc(entity_states, key, updates)
    /\ nmut' = IF last_exc' = "none" THEN [nmut EXCEPT ![key] = @ + 1] ELSE nmut
    /\ failed' = IF last_exc' = "none" THEN failed ELSE [failed EXCEPT ![key] = TRUE]
    /\ UNCHANGED <<active_entities, nreg>>

mark_entity_active(key) ==
    /\ active_entities' = [active_entities EXCEPT ![key] = TRUE]
    /\ last_exc' = "none"
    /\ UNCHANGED <<entity_states, nreg, nmut, failed>>

mark_entity_available(key) ==
    /\ active_entities' = [active_entities EXCEPT ![key] = FALSE]
    /\ last_exc' = "none"
    /\ UNCHANGED <<entity_states, nreg, nmut, failed>>

StoreKeys == {<<"User", 1>>, <<"User", 2>>}

StoreNext ==
    \/ \E k \in StoreKeys, t \in 0..MaxTime : add_entity(k, t)
    \/ \E k \in StoreKeys, u \in UpdateLists, t \in 0..MaxTime : insert_state(k, u, t)
    \/ mark_entity_active(<<"User", 1>>)
    \/ mark_entity_available(<<"User", 1>>)

StoreSpec == StoreInit /\ [][StoreNext /\ UNCHANGED <<run_vars, unit_vars>>]_vars

(***************************************************************************)
(* Configuration of the simulated run (Simulation.__init__) and the flow   *)
(* templates registered with Simulation.flow.  A flow body is the list of  *)
(* actions its generator yields; "Raise" is a body that raises.            *)
(***************************************************************************)
start_time == 0
TimeStep == 2         \* time_step
Duration == 3         \* duration: the last tick is cut at the horizon
NFlows == 2           \* n_flows: the largest number of slots of a tick
NOutputs == 2         \* outputs registered with add_output

end_time == start_time + Duration

NewEvent(save_entity, mutate_type, updates) ==
    [kind |-> "NewEvent", save_entity |-> save_entity,
     mutate_type |-> mutate_type, updates |-> updates, rate |-> 0, delta |-> 0]

\* rate is in percent: AddDecay(ctx, rate=0.5, seconds=1) is AddDecay(50, 1).
AddDecay(rate, delta) ==
    [kind |-> "AddDecay", save_entity |-> "None",
     mutate_type |-> "None", updates |-> <<>>, rate |-> rate, delta |-> delta]

SetState(entity_type, updates) ==
    [kind |-> "SetState", save_entity |-> "None",
     mutate_type |-> entity_type, updates |-> updates, rate |-> 0, delta |-> 0]

Raise ==
    [kind |-> "Raise", save_entity |-> "None",
     mutate_type |-> "None", updates |-> <<>>, rate |-> 0, delta |-> 0]

\* Code of a flow body between two yields that writes the context's
\* selected_entities directly: ctx.selected_entities[entity_type] = entity_id
\* and del ctx.selected_entities[entity_type].
Attach(entity_type, entity_id) ==
    [kind |-> "Attach", entity_type |-> entity_type, entity_id |-> entity_id]

Detach(entity_type) ==
    [kind |-> "Detach", entity_type |-> entity_type, entity_id |-> 0]

NoSelect == [has |-> FALSE, entity_type |-> "None", where |-> <<>>]
Select(entity_type, where) ==
    [has |-> TRUE, entity_type |-> entity_type, where |-> where]

SubtractBalance == << <<"balance", "subtract", 100>> >>

FlowDefinition(initiation_weight, filter_condition, body) ==
    [initiation_weight |-> initiation_weight,
     filter_condition |-> filter_condition, body |-> body]

Flows ==
    << FlowDefinition(3, Select("User", << <<"balance", "greater_than", 0>> >>),
          << NewEvent("None", "User", SubtractBalance),
             AddDecay(0, 1),
             NewEvent("None", "User", SubtractBalance),
             AddDecay(50, 1),
             NewEvent("None", "None", <<>>) >>),
       FlowDefinition(1, NoSelect,
          << NewEvent("User", "Device", << <<"count", "add", 1>> >>),
             SetState("User", << <<"visits", "add", 1>> >>),
             AddDecay(50, 0),
             Raise >>),
       FlowDefinition(1, NoSelect,
          << Attach("Device", 1),
             SetState("Device", << <<"count", "add", 1>> >>),
             Detach("Device"),
             SetState("User", SubtractBalance),
             NewEvent("None", "User", SubtractBalance),
             AddDecay(100, 1),
             NewEvent("None", "None", <<>>) >>),
       FlowDefinition(0, NoSelect,
          << NewEvent("None", "None", <<>>) >>),
       FlowDefinition(10, NoSelect,
          << NewEvent("User", "None", <<>>),
             AddDecay(0, 1),
             NewEvent("User", "None", <<>>),
             AddDecay(0, 1),
             NewEvent("User", "None", <<>>) >>) >>

FlowConfigs == {{1}, {1, 2, 3}, {4}, {5}}

\* n_flows: one slot, or NFlows slots.  The one-slot runs are made with the
\* first or the last template alone, the run on the second uuid stream with
\* the first.
NFlowsConfigs == {1, NFlows}

\* uuid.uuid4() draws from the operating system, not from the generator
\* that random_seed seeds: the n-th value it returns in a run is
\* uuid4(n), which differs from one stream to the other.
UuidStreams == {0, 1}
UuidSpace == 100
uuid4(n) == uuid_stream * UuidSpace + n

\* initial_entities = {User: n}: the numbers n of initial users considered.
InitialEntities == {0, 1}

\* tf = ti + timedelta(seconds=random.random() * delta_seconds): the start
\* times considered for a flow of the tick [ti, tj).  The product is below
\* delta_seconds, and timedelta rounds it to the nearest microsecond, the
\* unit of time: a product in the last half unit gives tj itself.  For the
\* first flow of a tick the first time of the tick, the last time below tj
\* and tj are considered, for the others the first time of the tick.
StartOffsets(from, to) == IF slot = 0 THEN {from, to - 1, to} ELSE {from}

\* random.random() in percent, for the comparison with a rate.
Draws == {0, 99}

(***************************************************************************)
(* GlobalContext and FlowContext (actions.py).                             *)
(***************************************************************************)
\* EntityManager.set_entity_flow: the claim is the state field flow_name,
\* written through insert_state.
set_entity_flow(es, key, flow_name, time) ==
    insert_state_es(es, key, << <<"flow_name", "is", flow_name>> >>, time)

\* GlobalContext.select_entities: the available entities of the selector at
\* the global clock.
select_entities(es, ae, selector, gclock) ==
    get_available_entities(es, ae, selector.entity_type, selector.where, gclock)

NoEntities == [t \in Types |-> 0]

\* GlobalContext.start_flow / FlowContext.__init__, and the flow_info record
\* of run.  ip is the position of the generator in the body.  History
\* fields: tick_end is tj of the tick that started the flow, why lists the
\* reasons for which run appended the flow to completed_flows, ord is the
\* number of the flow among the flows run started, attached the entities
\* that add_entity attached to the flow so far.
FlowInfo(flow_def, sid, start, tick_end) ==
    [flow_def |-> flow_def, sid |-> sid, flow_clock |-> start,
     selected_entities |-> NoEntities, ip |-> 1, active |-> TRUE,
     tick_end |-> tick_end, why |-> <<>>, ord |-> next_sid + 1,
     attached |-> {}]

\* An add_entity that does not record the entity in the context.
ctx_add_entity_NotAttached(fi, key) == fi

\* FlowContext.add_entity: attach, then set the entity's flow name at the
\* global clock.
ctx_add_entity(fi, key) ==
    [fi EXCEPT !.selected_entities[key[1]] = key[2],
               !.attached = @ \cup {key}]

\* FlowContext.cleanup: flow name None for every selected entity, at the
\* flow clock.
RECURSIVE cleanup_types(_, _, _)
cleanup_types(es, fi, types) ==
    IF types = {} THEN es
    ELSE LET t == CHOOSE x \in types : TRUE
             es1 == IF fi.selected_entities[t] # 0
                    THEN set_entity_flow(es, <<t, fi.selected_entities[t]>>,
                                         NoneV, fi.flow_clock)
                    ELSE es
         IN cleanup_types(es1, fi, types \ {t})

\* A cleanup that leaves the store as it is.
cleanup_NoRelease(es, fi) == es

cleanup(es, fi) == cleanup_types(es, fi, Types)

(***************************************************************************)
(* Simulation (simulation.py).                                             *)
(***************************************************************************)
\* _select_flow: the templates that pass their filter.
eligible_flows(es, ae, gclock) ==
    {f \in flows :
        \/ ~Flows[f].filter_condition.has
        \/ select_entities(es, ae, Flows[f].filter_condition, gclock) # {}}

RECURSIVE SumWeights(_)
SumWeights(fs) ==
    IF fs = {} THEN 0
    ELSE LET f == CHOOSE x \in fs : TRUE
         IN Flows[f].initiation_weight + SumWeights(fs \ {f})

RemoveAt(seq, i) == [j \in 1..(Len(seq) - 1) |-> IF j < i THEN seq[j] ELSE seq[j + 1]]

\* The removal loop of run: for i in reversed(completed_flows), clean up and
\* pop active_flows[i] when i is still an index of the list.
RECURSIVE remove_completed(_, _, _, _, _)
remove_completed(af, es, rem, completed, c) ==
    IF c = 0 THEN [af |-> af, es |-> es, rem |-> rem]
    ELSE LET i == completed[c]
         IN IF i <= Len(af)
            THEN remove_completed(RemoveAt(af, i), cleanup(es, af[i]),
                                  Append(rem, af[i]), completed, c - 1)
            ELSE remove_completed(af, es, rem, completed, c - 1)

Abort(exc) ==
    /\ pc' = "aborted"
    /\ abort_exc' = exc

Init ==
    /\ UnitIdle
    /\ flows \in FlowConfigs
    /\ initial_entities \in InitialEntities
    /\ n_flows \in NFlowsConfigs
    /\ uuid_stream \in UuidStreams
    /\ n_flows # NFlows => flows \in {{1}, {5}}
    /\ uuid_stream # 0 => flows = {1}
    /\ flows = {5} => n_flows = 1
    /\ pc = "init"
    /\ ti = start_time
    /\ tj = start_time
    /\ global_clock = start_time
    /\ slot = 0
    /\ active_flows = <<>>
    /\ idx = 0
    /\ completed_flows = <<>>
    /\ next_sid = 0
    /\ outputs = [o \in 1..NOutputs |-> <<>>]
    /\ closed = {}
    /\ abort_exc = "none"
    /\ removed = <<>>
    /\ entity_states = [k \in Keys |-> <<>>]
    /\ active_entities = [k \in Keys |-> FALSE]
    /\ last_exc = "none"
    /\ nreg = [k \in Keys |-> 0]
    /\ nmut = [k \in Keys |-> 0]
    /\ failed = [k \in Keys |-> FALSE]

\* run, up to the loop: _initialize_entities registers the initial entities
\* at the global clock.
InitializeEntities ==
    /\ pc = "init"
    /\ entity_states' =
          [k \in Keys |->
              IF k[1] = "User" /\ k[2] <= initial_entities
              THEN <<EntityState(DefaultState("User"), global_clock)>>
              ELSE <<>>]
    /\ active_entities' = [k \in Keys |-> FALSE]
    /\ ti' = start_time
    /\ pc' = "tick"
    /\ UNCHANGED <<unit_vars, flows, initial_entities, n_flows, uuid_stream, tj, global_clock, slot, active_flows, idx,
                   completed_flows, next_sid, outputs, closed, abort_exc,
                   removed, last_exc, nreg, nmut, failed>>

\* The head of a tick that does not cut the window at end_time.
TickStart_NoTruncate ==
    /\ pc = "tick"
    /\ ti < end_time
    /\ tj' = ti + TimeStep
    /\ global_clock' = ti
    /\ active_flows' = <<>>
    /\ slot' = 0
    /\ removed' = <<>>
    /\ pc' = "launch"
    /\ UNCHANGED <<unit_vars, flows, initial_entities, n_flows, uuid_stream, ti, idx, completed_flows, next_sid, outputs, closed,
                   abort_exc, store_vars>>

\* while ti < end_time: the head of one tick.
TickStart ==
    /\ pc = "tick"
    /\ ti < end_time
    /\ tj' = IF ti + TimeStep > end_time THEN end_time ELSE ti + TimeStep
    /\ global_clock' = ti
    /\ active_flows' = <<>>
    /\ slot' = 0
    /\ removed' = <<>>
    /\ pc' = "launch"
    /\ UNCHANGED <<unit_vars, flows, initial_entities, n_flows, uuid_stream, ti, idx, completed_flows, next_sid, outputs, closed,
                   abort_exc, store_vars>>

\* A slot without eligible flow that makes run stop with an error.
SlotNoEligibleFlow_Raises ==
    /\ pc = "launch"
    /\ slot < n_flows
    /\ eligible_flows(entity_states, active_entities, global_clock) = {}
    /\ Abort("ValueError")
    /\ UNCHANGED <<unit_vars, flows, initial_entities, n_flows, uuid_stream, ti, tj, global_clock,
                   slot, active_flows, idx, completed_flows, next_sid, outputs,
                   closed, removed, store_vars>>

\* One iteration of "for _ in range(n_flows)" in which _select_flow returns
\* None.
SlotNoEligibleFlow ==
    /\ pc = "launch"
    /\ slot < n_flows
    /\ eligible_flows(entity_states, active_entities, global_clock) = {}
    /\ slot' = slot + 1
    /\ UNCHANGED <<unit_vars, flows, initial_entities, n_flows, uuid_stream, pc, ti, tj, global_clock, active_flows, idx,
                   completed_flows, next_sid, outputs, closed, abort_exc,
                   removed, store_vars>>

\* One iteration of "for _ in range(n_flows)" that starts a flow: the
\* weighted draw, the start offset and _create_flow_context.
SlotLaunch ==
    /\ pc = "launch"
    /\ slot < n_flows
    /\ LET el == eligible_flows(entity_states, active_entities, global_clock)
       IN /\ el # {}
          /\ IF SumWeights(el) <= 0
             THEN /\ Abort("ValueError")
                  /\ UNCHANGED <<unit_vars, flows, initial_entities, n_flows, uuid_stream, ti, tj, global_clock, slot,
                                 active_flows, idx, completed_flows, next_sid,
                                 outputs, closed, removed, store_vars>>
             ELSE \E f \in el, tf \in StartOffsets(ti, tj) :
                    /\ Flows[f].initiation_weight > 0
                    /\ LET fi == FlowInfo(f, uuid4(next_sid + 1), tf, tj)
                           sel == Flows[f].filter_condition
                           matching ==
                               IF sel.has
                               THEN select_entities(entity_states,
                                        active_entities, sel, global_clock)
                               ELSE {}
                       IN IF matching # {}
                          THEN \E k \in matching :
                                 /\ active_flows' =
                                       Append(active_flows, ctx_add_entity(fi, k))
                                 /\ entity_states' =
                                       set_entity_flow(entity_states, k, f,
                                                       global_clock)
                          ELSE /\ active_flows' = Append(active_flows, fi)
                               /\ UNCHANGED entity_states
                    /\ next_sid' = next_sid + 1
                    /\ slot' = slot + 1
                    /\ UNCHANGED <<unit_vars, flows, initial_entities, n_flows, uuid_stream, pc, ti, tj, global_clock, idx,
                                   completed_flows, outputs, closed, abort_exc,
                                   removed, active_entities, last_exc, nreg,
                                   nmut, failed>>

\* "while active_flows:" evaluated after the launches and after each pass.
WhileActive ==
    /\ \/ pc = "launch" /\ slot >= n_flows
       \/ pc = "while"
    /\ IF active_flows = <<>>
       THEN /\ ti' = tj
            /\ pc' = "tick"
            /\ slot' = 0
            /\ UNCHANGED <<idx, completed_flows>>
       ELSE /\ pc' = "pass"
            /\ idx' = 1
            /\ completed_flows' = <<>>
            /\ UNCHANGED <<ti, slot>>
    /\ UNCHANGED <<unit_vars, flows, initial_entities, n_flows, uuid_stream, tj, global_clock, active_flows, next_sid,
                   outputs, closed, abort_exc, removed, store_vars>>

\* mutate_selected_entity whose ValueError for a type without an attached
\* entity is not caught by the caller.
mutate_selected_entity_Raises(es, fi, entity_type, updates) ==
    IF fi.selected_entities[entity_type] = 0
    THEN [exc |-> "ValueError", es |-> es]
    ELSE LET key == <<entity_type, fi.selected_entities[entity_type]>>
             exc == insert_state_exc(es, key, updates)
         IN [exc |-> IF exc = "ValueError" THEN "none" ELSE exc,
             es |-> insert_state_es(es, key, updates, fi.flow_clock)]

\* FlowContext.mutate_selected_entity as _process_new_event and
\* _process_set_state call it: a ValueError (no entity of the type attached)
\* is swallowed, anything else leaves run.
mutate_selected_entity(es, fi, entity_type, updates) ==
    IF fi.selected_entities[entity_type] = 0
    THEN [exc |-> "none", es |-> es]
    ELSE LET key == <<entity_type, fi.selected_entities[entity_type]>>
             exc == insert_state_exc(es, key, updates)
         IN [exc |-> IF exc = "ValueError" THEN "none" ELSE exc,
             es |-> insert_state_es(es, key, updates, fi.flow_clock)]

\* next(generator): the body runs up to its next yield, writes to
\* selected_entities on the way included.
RECURSIVE RunToYield(_)
RunToYield(fi) ==
    LET body == Flows[fi.flow_def].body
    IN IF fi.ip <= Len(body) /\ body[fi.ip].kind \in {"Attach", "Detach"}
       THEN RunToYield([fi EXCEPT !.selected_entities[body[fi.ip].entity_type] =
                                       body[fi.ip].entity_id,
                                  !.ip = fi.ip + 1])
       ELSE fi

\* The id of the entity an event with save_entity creates: a fresh one.
FreshId(es, entity_type) ==
    Cardinality({k \in Keys : k[1] = entity_type /\ Registered(es, k)}) + 1

\* Clock units in one millisecond: timestamp() counts seconds, sys__ets
\* whole milliseconds, the clock itself is finer.
UnitsPerMs == 2

\* A conversion that rounds up to the next whole millisecond.
timestamp_ms_RoundUp(flow_clock) ==
    (flow_clock + UnitsPerMs - 1) \div UnitsPerMs

\* int(flow_clock.timestamp() * 1000)
timestamp_ms(flow_clock) == flow_clock \div UnitsPerMs

\* generate_fake_data: fake is what a random generator returns this time.
generate_fake_data(faker_type, fake, current_time) ==
    IF faker_type = "" THEN NoneV
    ELSE IF faker_type = "now" THEN current_time
    ELSE fake

\* The event handed to the outputs, of a schema with a field registered_at
\* that has the 'now' generator: sys__ets is the flow clock in milliseconds,
\* sys__sid the session of the flow, registered_at the flow clock.
Event(fi) ==
    [sys__ets |-> timestamp_ms(fi.flow_clock), sys__sid |-> fi.sid,
     registered_at |-> generate_fake_data("now", NoneV, fi.flow_clock),
     flow_def |-> fi.flow_def, ip |-> fi.ip, tick_end |-> fi.tick_end,
     ord |-> fi.ord]

\* AfterAction without the test "flow_clock > tj".
AfterAction_NoBoundary(fi, should_terminate) ==
    LET c1 == IF should_terminate THEN Append(completed_flows, idx)
              ELSE completed_flows
        w1 == IF should_terminate THEN Append(fi.why, "Decayed") ELSE fi.why
    IN /\ completed_flows' = c1
       /\ active_flows' =
             [active_flows EXCEPT ![idx] =
                 [fi EXCEPT !.active = ~should_terminate,
                            !.ip = fi.ip + 1,
                            !.why = w1]]
       /\ idx' = idx + 1

\* The end of one iteration of the for loop of run, after _process_action
\* returned should_terminate for the flow fi.
AfterAction(fi, should_terminate) ==
    LET over == fi.flow_clock > tj
        c1 == IF should_terminate THEN Append(completed_flows, idx)
              ELSE completed_flows
        c2 == IF over THEN Append(c1, idx) ELSE c1
        w1 == IF should_terminate THEN Append(fi.why, "Decayed") ELSE fi.why
        w2 == IF over THEN Append(w1, "BoundaryExceeded") ELSE w1
    IN /\ completed_flows' = c2
       /\ active_flows' =
             [active_flows EXCEPT ![idx] =
                 [fi EXCEPT !.active = ~(should_terminate \/ over),
                            !.ip = fi.ip + 1,
                            !.why = w2]]
       /\ idx' = idx + 1

\* process_new_event sending the event to the first output only.
process_new_event_FirstSinkOnly(fi, action) ==
    LET saved == action.save_entity # "None"
        key == <<action.save_entity, FreshId(entity_states, action.save_entity)>>
        es1 == IF saved
               THEN set_entity_flow(
                      add_entity_es(entity_states, key,
                                    DefaultState(action.save_entity), global_clock),
                      key, fi.flow_def, global_clock)
               ELSE entity_states
        fi1 == IF saved THEN ctx_add_entity(fi, key) ELSE fi
        mut == IF action.mutate_type # "None"
               THEN mutate_selected_entity(es1, fi1, action.mutate_type,
                                           action.updates)
               ELSE [exc |-> "none", es |-> es1]
    IN /\ saved => key \in Keys
       /\ entity_states' = mut.es
       /\ active_entities' =
             IF saved THEN [active_entities EXCEPT ![key] = FALSE]
             ELSE active_entities
       /\ IF mut.exc # "none"
          THEN /\ Abort(mut.exc)
               /\ UNCHANGED <<active_flows, idx, completed_flows, outputs>>
          ELSE /\ outputs' = [outputs EXCEPT ![1] = Append(outputs[1], Event(fi))]
               /\ AfterAction(fi1, FALSE)
               /\ UNCHANGED <<pc, abort_exc>>

\* Simulation._process_new_event.
process_new_event(fi, action) ==
    LET saved == action.save_entity # "None"
        key == <<action.save_entity, FreshId(entity_states, action.save_entity)>>
        es1 == IF saved
               THEN set_entity_flow(
                      add_entity_es(entity_states, key,
                                    DefaultState(action.save_entity), global_clock),
                      key, fi.flow_def, global_clock)
               ELSE entity_states
        fi1 == IF saved THEN ctx_add_entity(fi, key) ELSE fi
        mut == IF action.mutate_type # "None"
               THEN mutate_selected_entity(es1, fi1, action.mutate_type,
                                           action.updates)
               ELSE [exc |-> "none", es |-> es1]
    IN /\ saved => key \in Keys
       /\ entity_states' = mut.es
       /\ active_entities' =
             IF saved THEN [active_entities EXCEPT ![key] = FALSE]
             ELSE active_entities
       /\ IF mut.exc # "none"
          THEN /\ Abort(mut.exc)
               /\ UNCHANGED <<active_flows, idx, completed_flows, outputs>>
          ELSE /\ outputs' = [o \in 1..NOutputs |-> Append(outputs[o], Event(fi))]
               /\ AfterAction(fi1, FALSE)
               /\ UNCHANGED <<pc, abort_exc>>

process_set_state(fi, action) ==
    LET mut == mutate_selected_entity(entity_states, fi, action.mutate_type,
                                      action.updates)
    IN /\ entity_states' = mut.es
       /\ IF mut.exc # "none"
          THEN /\ Abort(mut.exc)
               /\ UNCHANGED <<active_flows, idx, completed_flows>>
          ELSE /\ AfterAction(fi, FALSE)
               /\ UNCHANGED <<pc, abort_exc>>
       /\ UNCHANGED <<active_entities, outputs>>

\* process_add_decay drawing first, and advancing the clock only of a flow
\* that goes on.
process_add_decay_DrawFirst(fi, action, u) ==
    /\ AfterAction(IF u < action.rate THEN fi
                   ELSE [fi EXCEPT !.flow_clock = @ + action.delta],
                   u < action.rate)
    /\ UNCHANGED <<pc, abort_exc, entity_states, active_entities, outputs>>

\* _process_add_decay: advance the flow clock, then draw.
process_add_decay(fi, action, u) ==
    /\ AfterAction([fi EXCEPT !.flow_clock = @ + action.delta], u < action.rate)
    /\ UNCHANGED <<pc, abort_exc, entity_states, active_entities, outputs>>

\* One iteration of "for i, flow_info in enumerate(active_flows)".
StepFlow ==
    /\ pc = "pass"
    /\ idx <= Len(active_flows)
    /\ IF ~active_flows[idx].active
       THEN /\ completed_flows' = Append(completed_flows, idx)
            /\ idx' = idx + 1
            /\ UNCHANGED <<pc, abort_exc, active_flows, entity_states,
                           active_entities, outputs>>
       ELSE LET fi == RunToYield(active_flows[idx])
                body == Flows[fi.flow_def].body
            IN IF fi.ip > Len(body)
               THEN \* StopIteration
                    /\ active_flows' =
                          [active_flows EXCEPT ![idx] =
                              [fi EXCEPT !.active = FALSE,
                                         !.why = Append(@, "Completed")]]
                    /\ completed_flows' = Append(completed_flows, idx)
                    /\ idx' = idx + 1
                    /\ UNCHANGED <<pc, abort_exc, entity_states, active_entities,
                                   outputs>>
               ELSE LET action == body[fi.ip]
                    IN CASE action.kind = "NewEvent" -> process_new_event(fi, action)
                         [] action.kind = "SetState" -> process_set_state(fi, action)
                         [] action.kind = "AddDecay" ->
                               \E u \in Draws : process_add_decay(fi, action, u)
                         [] action.kind = "Raise" ->
                               /\ Abort("FlowBehaviorError")
                               /\ UNCHANGED <<active_flows, idx, completed_flows,
                                              entity_states, active_entities, outputs>>
    /\ UNCHANGED <<unit_vars, flows, initial_entities, n_flows, uuid_stream, ti, tj, global_clock, slot, next_sid, closed,
                   removed, last_exc, nreg, nmut, failed>>

\* The removal loop that ends a pass.  The loop variables of the pass are
\* dead afterwards and are reset.
RemoveCompleted ==
    /\ pc = "pass"
    /\ idx > Len(active_flows)
    /\ LET r == remove_completed(active_flows, entity_states, removed,
                                 completed_flows, Len(completed_flows))
       IN /\ active_flows' = r.af
          /\ entity_states' = r.es
          /\ removed' = r.rem
    /\ pc' = "while"
    /\ idx' = 0
    /\ completed_flows' = <<>>
    /\ UNCHANGED <<unit_vars, flows, initial_entities, n_flows, uuid_stream, ti, tj, global_clock, slot,
                   next_sid, outputs, closed, abort_exc, active_entities,
                   last_exc, nreg, nmut, failed>>

\* The loop of run is left at the horizon: close the outputs.
Finish ==
    /\ pc = "tick"
    /\ ti >= end_time
    /\ closed' = 1..NOutputs
    /\ pc' = "done"
    /\ UNCHANGED <<unit_vars, flows, initial_entities, n_flows, uuid_stream, ti, tj, global_clock, slot, active_flows, idx,
                   completed_flows, next_sid, outputs, abort_exc, removed,
                   store_vars>>

Next ==
    \/ InitializeEntities
    \/ TickStart
    \/ SlotNoEligibleFlow
    \/ SlotLaunch
    \/ WhileActive
    \/ StepFlow
    \/ RemoveCompleted
    \/ Finish

Spec == Init /\ [][Next]_vars

\* run is one sequential loop: as long as a step of it is possible, a step
\* is eventually taken.
LiveSpec == Spec /\ WF_vars(Next)

(***************************************************************************)
(* Properties.                                                             *)
(***************************************************************************)
Versions(k) == entity_states[k]
NVersions(k) == Len(entity_states[k])

\* The claim of an entity: the flow_name of its current version.
Claim(k) ==
    StateGet(entity_states[k][get_entity_state_current(entity_states, k)].state,
             "flow_name")

\* The flows of the tick that run still holds as active.
Running == {i \in 1..Len(active_flows) : active_flows[i].active}

Holds(fi, k) == fi.selected_entities[k[1]] = k[2]

ValidIdx(k, t) == {i \in 1..NVersions(k) : is_valid_at(Versions(k)[i], t)}

\* C1: an entity registered once and mutated n times, every mutation having
\* returned, has n+1 versions, each closed where the next one starts, and
\* their intervals partition the time from its registration on: no version
\* is valid before, exactly one at each later time.
C1_VersionsPartition ==
    \A k \in StoreKeys :
        (nreg[k] = 1 /\ ~failed[k]) =>
            /\ NVersions(k) = nmut[k] + 1
            /\ \A i \in 1..(NVersions(k) - 1) :
                  Versions(k)[i].valid_to = Versions(k)[i + 1].valid_from
            /\ \A t \in 0..(MaxTime + 1) :
                  IF t < Versions(k)[1].valid_from
                  THEN ValidIdx(k, t) = {}
                  ELSE Cardinality(ValidIdx(k, t)) = 1

\* C2: in every state of the store each registered entity's versions are
\* ordered by valid_from, and exactly one version is open (valid_to None):
\* the last one.
C2_OneOpenVersionLast ==
    \A k \in StoreKeys :
        Registered(entity_states, k) =>
            /\ \A i \in 1..(NVersions(k) - 1) :
                  Versions(k)[i].valid_from <= Versions(k)[i + 1].valid_from
            /\ \A i \in 1..NVersions(k) :
                  (Versions(k)[i].valid_to = NoneV) <=> (i = NVersions(k))

\* C3: no entity is attached to two running flows of a tick at once.
C3_OneHolder ==
    \A i, j \in Running :
        i # j => \A k \in Keys :
                    ~(Holds(active_flows[i], k) /\ Holds(active_flows[j], k))

\* C4: the available entities are among the queried ones, and none of them
\* is attached to a running flow.
C4_AvailableUnclaimed ==
    \A type \in Types :
        LET available == get_available_entities(entity_states, active_entities,
                                                type, <<>>, global_clock)
        IN /\ available \subseteq query(entity_states, type, <<>>, global_clock)
           /\ \A i \in Running : \A k \in available : ~Holds(active_flows[i], k)

\* C5: with one template, which needs a user, one user and two slots, the
\* first tick starts exactly one flow: the second slot finds no eligible
\* flow.
C5_SecondSlotNotEligible ==
    (/\ flows = {1}
     /\ initial_entities = 1
     /\ NFlows = 2
     /\ n_flows = NFlows
     /\ ti = start_time
     /\ pc = "launch"
     /\ slot = NFlows) => Len(active_flows) = 1

\* C6: no entity is left claimed when a tick has ended, and a flow that ended
\* with an error has released what it held.
C6_ReleasedOnTermination ==
    /\ pc \in {"tick", "done"} =>
          \A k \in Keys : Registered(entity_states, k) => Claim(k) = NoneV
    /\ (pc = "aborted" /\ abort_exc = "FlowBehaviorError") =>
          \A k \in Keys : Holds(active_flows[idx], k) => Claim(k) = NoneV

\* C7: a flow whose clock is past the end of its tick is no longer active,
\* and a step that sends an event or writes the store is the step of a flow
\* whose clock is not past the end of its tick.
C7_Inactive ==
    \A i \in 1..Len(active_flows) :
        active_flows[i].flow_clock > active_flows[i].tick_end
            => ~active_flows[i].active

C7_StepInTick ==
    (/\ pc = "pass"
     /\ idx <= Len(active_flows)
     /\ (outputs' # outputs \/ entity_states' # entity_states))
        => /\ active_flows[idx].flow_clock <= tj
           /\ active_flows[idx].tick_end = tj

C7_NothingPastTickEnd ==
    /\ []C7_Inactive
    /\ [][C7_StepInTick]_vars
    /\ [](\A o \in 1..NOutputs : \A e \in 1..Len(outputs[o]) :
             outputs[o][e].registered_at <= outputs[o][e].tick_end)

\* C7 witness: a flow was removed with its clock past the end of its tick
\* and intents of its body left, after it had sent an event.
C7_Witness ==
    \E r \in 1..Len(removed) :
        /\ removed[r].flow_clock > removed[r].tick_end
        /\ removed[r].ip <= Len(Flows[removed[r].flow_def].body)
        /\ \E e \in 1..Len(outputs[1]) : outputs[1][e].sys__sid = removed[r].sid

\* C8: a decay step advances the flow clock by its duration and does nothing
\* else to the store or the outputs; a rate of 0 never ends the flow by
\* decay, a rate of 1 always does; and a flow ended by decay stays where the
\* decay left it: none of its later intents is evaluated.
C8_DecayStep ==
    (/\ pc = "pass"
     /\ idx <= Len(active_flows)
     /\ active_flows[idx].active
     /\ active_flows[idx].ip <= Len(Flows[active_flows[idx].flow_def].body)
     /\ Flows[active_flows[idx].flow_def].body[active_flows[idx].ip].kind = "AddDecay")
        => LET fi == active_flows[idx]
               action == Flows[fi.flow_def].body[fi.ip]
               fj == active_flows'[idx]
           IN /\ fj.flow_clock = fi.flow_clock + action.delta
              /\ action.rate = 0 => (fj.active <=> fj.flow_clock <= tj)
              /\ action.rate = 100 => ~fj.active
              /\ UNCHANGED <<entity_states, outputs>>

C8_Decayed(fi) ==
    (\E w \in 1..Len(fi.why) : fi.why[w] = "Decayed")
        => /\ ~fi.active
           /\ Flows[fi.flow_def].body[fi.ip - 1].kind = "AddDecay"
           /\ Flows[fi.flow_def].body[fi.ip - 1].rate > 0

C8_Decay ==
    /\ [][C8_DecayStep]_vars
    /\ [](\A i \in 1..Len(active_flows) : C8_Decayed(active_flows[i]))
    /\ [](\A r \in 1..Len(removed) : C8_Decayed(removed[r]))

\* C8 witness: a flow ended by a decay of rate below 1 was removed with
\* intents of its body left and its clock inside the tick.
C8_Witness ==
    \E r \in 1..Len(removed) :
        /\ removed[r].why = <<"Decayed">>
        /\ removed[r].ip <= Len(Flows[removed[r].flow_def].body)
        /\ Flows[removed[r].flow_def].body[removed[r].ip - 1].rate < 100

\* C9: an error raised by a flow body never makes run stop.
C9_BodyErrorContained ==
    ~(pc = "aborted" /\ abort_exc = "FlowBehaviorError")

\* C10: only flows that are no longer active are removed from active_flows,
\* and the clock moves to the next tick only then.
C10_OnlyTerminalRemoved ==
    \A r \in 1..Len(removed) : ~removed[r].active

\* C11: every version a step of the run appends to an entity that already
\* has one (a body mutation at the flow clock, the flow name set when an
\* entity is attached, the flow name reset by cleanup) starts strictly
\* later than the version before it.
C11_StrictlyLaterMutations ==
    [][\A k \in Keys :
          \A i \in (Len(entity_states[k]) + 1)..Len(entity_states'[k]) :
              i > 1 => entity_states'[k][i].valid_from
                          > entity_states'[k][i - 1].valid_from]_vars

\* C12: insert_state on a key that was never registered, or with a time not
\* after the valid_from of the current version, raises and leaves
\* entity_states as it was.
C12_Invalid(k, t) ==
    \/ ~Registered(entity_states, k)
    \/ t <= entity_states[k][get_entity_state_current(entity_states, k)].valid_from

C12_MutateRejects ==
    [][\A k \in StoreKeys, u \in UpdateLists, t \in 0..MaxTime :
          (insert_state(k, u, t) /\ C12_Invalid(k, t))
              => /\ last_exc' # "none"
                 /\ entity_states' = entity_states]_vars

\* C13: add_entity of a key that is already registered raises and leaves
\* the versions and the active flag of the entity as they were.
C13_RegisterRejectsDuplicate ==
    [][\A k \in StoreKeys, t \in 0..MaxTime :
          (add_entity(k, t) /\ Registered(entity_states, k))
              => /\ last_exc' # "none"
                 /\ entity_states' = entity_states
                 /\ active_entities' = active_entities]_vars

\* The flow the for loop of run is at, after next() ran its body up to the
\* yield, and the intent it yields there.
AtIntent ==
    /\ pc = "pass"
    /\ idx <= Len(active_flows)
    /\ active_flows[idx].active
    /\ RunToYield(active_flows[idx]).ip
          <= Len(Flows[active_flows[idx].flow_def].body)

Stepped == RunToYield(active_flows[idx])
Intent == Flows[Stepped.flow_def].body[Stepped.ip]

\* The intent carries a mutation (NewEvent with mutate, or SetState).
Mutating ==
    /\ Intent.kind \in {"NewEvent", "SetState"}
    /\ Intent.mutate_type # "None"

\* The id the mutation of the intent is aimed at: the one attached for the
\* type; 0 when none is attached and the intent does not create one.
TargetId ==
    IF Intent.save_entity = Intent.mutate_type
    THEN FreshId(entity_states, Intent.mutate_type)
    ELSE Stepped.selected_entities[Intent.mutate_type]

\* C14: a step in which the store raises its error for an unknown entity
\* (the entity attached for the type of the mutation is not in the store)
\* makes run stop with that error.
C14_StoreErrorFatal ==
    [][(/\ AtIntent
        /\ Mutating
        /\ Intent.save_entity # Intent.mutate_type
        /\ TargetId # 0
        /\ insert_state_exc(entity_states, <<Intent.mutate_type, TargetId>>,
                            Intent.updates) = "ValueError")
          => (pc' = "aborted" /\ abort_exc' = "ValueError")]_vars

\* C15: a step whose intent carries a mutation for a type of which the flow
\* has no entity attached raises nothing and leaves every entity of that
\* type, and the whole store when the intent saves no entity, as it was; a
\* NewEvent still sends its event to every output; and the flow stays
\* active, at its next intent.
C15_SkipStep ==
    (/\ AtIntent
     /\ Mutating
     /\ TargetId = 0)
        => /\ pc' = pc
           /\ abort_exc' = abort_exc
           /\ \A k \in Keys :
                 k[1] = Intent.mutate_type => entity_states'[k] = entity_states[k]
           /\ Intent.save_entity = "None" => entity_states' = entity_states
           /\ \A o \in 1..NOutputs :
                 outputs'[o] = IF Intent.kind = "NewEvent"
                               THEN Append(outputs[o], Event(Stepped))
                               ELSE outputs[o]
           /\ active_flows'[idx].active
           /\ active_flows'[idx].ip = Stepped.ip + 1
           /\ completed_flows' = completed_flows

C15_UnattachedMutationSkipped == [][C15_SkipStep]_vars

\* C15 witness: a flow of the third template, which never has a user
\* attached, went through its SetState and its NewEvent aimed at a user: it
\* is active at the intent that follows, its event is in the outputs, and
\* no user is in the store.
C15_Witness ==
    \E i \in 1..Len(active_flows) :
        /\ active_flows[i].flow_def = 3
        /\ active_flows[i].ip = 6
        /\ active_flows[i].active
        /\ active_flows[i].selected_entities["User"] = 0
        /\ \E e \in 1..Len(outputs[NOutputs]) :
              /\ outputs[NOutputs][e].sys__sid = active_flows[i].sid
              /\ outputs[NOutputs][e].ip = 5
        /\ \A k \in Keys : ~Registered(entity_states, k)

\* C16: get_entity_state with a time returns None for an unknown entity and
\* for a time before the registration, otherwise the one version whose
\* interval [valid_from, valid_to) holds the time; from the valid_from of the
\* last version on it returns the last version, which is the version
\* get_entity_state returns without a time.
C16_Holding(k, t) ==
    {i \in 1..NVersions(k) :
        /\ Versions(k)[i].valid_from <= t
        /\ (Versions(k)[i].valid_to = NoneV \/ t < Versions(k)[i].valid_to)}

C16_VersionAt ==
    \A k \in StoreKeys : \A t \in 0..(MaxTime + 1) :
        IF ~Registered(entity_states, k)
        THEN /\ get_entity_state(entity_states, k, t) = 0
             /\ get_entity_state_current(entity_states, k) = 0
        ELSE /\ t < Versions(k)[1].valid_from
                   => get_entity_state(entity_states, k, t) = 0
             /\ t >= Versions(k)[1].valid_from
                   => C16_Holding(k, t) = {get_entity_state(entity_states, k, t)}
             /\ t >= Versions(k)[NVersions(k)].valid_from
                   => /\ get_entity_state(entity_states, k, t) = NVersions(k)
                      /\ get_entity_state_current(entity_states, k) = NVersions(k)

\* The value of field f after the first n updates of a list, from the prior
\* state: the last update that names f decides, an add or subtract on top of
\* what came before it, a field missing from the prior state counting as 0.
RECURSIVE FieldAfter(_, _, _, _)
FieldAfter(prior, u, f, n) ==
    IF n = 0 THEN (IF f \in DOMAIN prior THEN prior[f] ELSE 0)
    ELSE IF u[n][1] # f THEN FieldAfter(prior, u, f, n - 1)
    ELSE IF u[n][2] = "add" THEN FieldAfter(prior, u, f, n - 1) + u[n][3]
    ELSE IF u[n][2] = "subtract" THEN FieldAfter(prior, u, f, n - 1) - u[n][3]
    ELSE u[n][3]

\* C17: an insert_state that returns closes the open current version at the
\* time of the call, leaves every other version alone, and appends one open
\* version that starts at that time; its fields are the prior fields and the
\* fields the updates name, each with the value the updates give it in list
\* order.
C17_Post(k, u, t) ==
    LET old == entity_states[k]
        new == entity_states'[k]
        cur == get_entity_state_current(entity_states, k)
        prior == old[cur].state
        named == {u[n][1] : n \in 1..Len(u)}
    IN /\ Len(new) = Len(old) + 1
       /\ \A i \in 1..Len(old) :
             new[i] = IF i = cur /\ old[i].valid_to = NoneV
                      THEN [old[i] EXCEPT !.valid_to = t]
                      ELSE old[i]
       /\ new[Len(new)].valid_from = t
       /\ new[Len(new)].valid_to = NoneV
       /\ DOMAIN new[Len(new)].state = (DOMAIN prior) \cup named
       /\ \A f \in DOMAIN new[Len(new)].state :
             new[Len(new)].state[f] = FieldAfter(prior, u, f, Len(u))
       /\ \A k2 \in Keys : k2 # k => entity_states'[k2] = entity_states[k2]

C17_MutateAppends ==
    [][\A k \in StoreKeys, u \in UpdateLists, t \in 0..MaxTime :
          (insert_state(k, u, t) /\ last_exc' = "none") => C17_Post(k, u, t)]_vars

\* C17 witness: user 1 was mutated with the list that adds 2 to the missing
\* field visits and then subtracts 1: the version before the last is closed
\* where the last one starts, and the last one has visits = 1 and the
\* balance it had.
C17_Witness ==
    LET k == <<"User", 1>>
        n == NVersions(k)
    IN /\ n >= 2
       /\ nmut[k] >= 1
       /\ Versions(k)[n].valid_to = NoneV
       /\ Versions(k)[n - 1].valid_to = Versions(k)[n].valid_from
       /\ "visits" \notin DOMAIN Versions(k)[n - 1].state
       /\ StateGet(Versions(k)[n].state, "visits") = 1
       /\ Versions(k)[n].state["balance"] = Versions(k)[n - 1].state["balance"]

\* The value of field f in the current version of an entity.
CurrentField(es, k, f) ==
    StateGet(es[k][get_entity_state_current(es, k)].state, f)

C18_Fields == {"balance", "visits"}
C18_Values == {1, 100}

\* C18: for a registered entity and a field that holds a number or is
\* missing, two insert_state calls that each add x leave the field at the
\* value one call that adds 2x leaves it at, and two calls that set it to v
\* leave it at the value one such call leaves it at, v.
C18_AddTwiceSetTwice ==
    \A k \in StoreKeys : \A f \in C18_Fields : \A x \in C18_Values :
        (Registered(entity_states, k) /\ (f \in DOMAIN
            entity_states[k][get_entity_state_current(entity_states, k)].state
                => CurrentField(entity_states, k, f) # NoneV))
        => LET add1 == << <<f, "add", x>> >>
               add2 == << <<f, "add", 2 * x>> >>
               set1 == << <<f, "is", x>> >>
               ins(es, u, t) == insert_state_es(es, k, u, t)
           IN /\ CurrentField(ins(ins(entity_states, add1, 0), add1, MaxTime), k, f)
                    = CurrentField(ins(entity_states, add2, MaxTime), k, f)
              /\ CurrentField(ins(entity_states, add2, 0), k, f)
                    = (IF CurrentField(entity_states, k, f) = NoneV THEN 0
                       ELSE CurrentField(entity_states, k, f)) + 2 * x
              /\ CurrentField(ins(ins(entity_states, set1, 0), set1, MaxTime), k, f)
                    = CurrentField(ins(entity_states, set1, MaxTime), k, f)
              /\ CurrentField(ins(entity_states, set1, 0), k, f) = x

\* C18 witness: a user whose balance a mutation has changed and whose field
\* visits a mutation has created, and a user that has no field visits.
C18_Witness ==
    \E k \in StoreKeys :
        /\ Registered(entity_states, k)
        /\ CurrentField(entity_states, k, "visits") = 1
        /\ nmut[k] >= 1

WhereLists ==
    { <<>>,
      << <<"balance", "greater_than", 500>> >>,
      << <<"balance", "less_than", 1000>>, <<"last_login", "is", NoneV>> >>,
      << <<"balance", "is_not", 500>> >>,
      << <<"last_login", "less_than", 5>> >>,
      << <<"visits", "greater_than", 0 - 100>> >>,
      << <<"balance", "in", {500, 1100}>> >> }

\* A condition holds of a state: Equals and NotEquals compare the value of
\* the field, None when it is absent; GreaterThan and LessThan need a value
\* that is present and not None; In needs the value among the given ones.
C19_Sat(state, c) ==
    LET present == c[1] \in DOMAIN state
    IN CASE c[2] = "is" -> IF present THEN state[c[1]] = c[3] ELSE c[3] = NoneV
         [] c[2] = "is_not" -> IF present THEN state[c[1]] # c[3] ELSE c[3] # NoneV
         [] c[2] = "greater_than" ->
               present /\ state[c[1]] # NoneV /\ state[c[1]] > c[3]
         [] c[2] = "less_than" ->
               present /\ state[c[1]] # NoneV /\ state[c[1]] < c[3]
         [] c[2] = "in" -> IF present THEN state[c[1]] \in c[3] ELSE NoneV \in c[3]

\* C19: query(type, where, t) is the set of the keys of the type that have a
\* version valid at t, the one get_entity_state returns, whose state
\* satisfies every condition of the where list.
C19_QueryExact ==
    \A type \in Types : \A w \in WhereLists : \A t \in 0..MaxTime :
        query(entity_states, type, w, t) =
            {k \in Keys :
                /\ k[1] = type
                /\ Len(entity_states[k]) > 0
                /\ \E i \in 1..Len(entity_states[k]) :
                      /\ is_valid_at(entity_states[k][i], t)
                      /\ \A j \in 1..(i - 1) : ~is_valid_at(entity_states[k][j], t)
                      /\ \A c \in 1..Len(w) :
                            C19_Sat(entity_states[k][i].state, w[c])}

\* C19 witness: user 1 was registered at 0 with the default balance and set
\* to balance 500 at 1: the query for balance < 1000 and last_login None
\* finds it at time 1 and not at time 0, the query without conditions finds
\* it at both, the query for last_login < 5 does not find it, and no query
\* for devices finds anything.
C19_Witness ==
    LET k == <<"User", 1>>
        low == << <<"balance", "less_than", 1000>>, <<"last_login", "is", NoneV>> >>
    IN /\ k \in query(entity_states, "User", low, 1)
       /\ k \notin query(entity_states, "User", low, 0)
       /\ k \in query(entity_states, "User", <<>>, 0)
       /\ k \notin query(entity_states, "User", << <<"last_login", "less_than", 5>> >>, 1)
       /\ query(entity_states, "Device", <<>>, 1) = {}

\* C20: a slot starts a flow of a template with a filter only with an entity
\* that is attached to no running flow and matches the filter at the global
\* clock, the start of the tick; the new flow holds that entity and nothing
\* else; and a template without filter is eligible in every slot.
C20_DrawStep ==
    (pc = "launch" /\ Len(active_flows') = Len(active_flows) + 1)
        => LET fi == active_flows'[Len(active_flows')]
               sel == Flows[fi.flow_def].filter_condition
           IN sel.has =>
                 \E k \in Keys :
                    /\ k[1] = sel.entity_type
                    /\ Holds(fi, k)
                    /\ \A t \in Types \ {k[1]} : fi.selected_entities[t] = 0
                    /\ global_clock = ti
                    /\ k \in query(entity_states, sel.entity_type, sel.where, ti)
                    /\ \A i \in Running : ~Holds(active_flows[i], k)

C20_EligibleDraws ==
    /\ [][C20_DrawStep]_vars
    /\ []((pc = "launch" /\ slot < n_flows)
            => \A f \in flows :
                  ~Flows[f].filter_condition.has
                      => f \in eligible_flows(entity_states, active_entities,
                                              global_clock))

\* C21: a slot for which no flow is eligible starts no flow, raises nothing
\* and changes nothing but the count of the slots drawn, so the tick goes on
\* with its other slots; and a tick never starts more flows than n_flows:
\* the flows of the tick, running or removed, are at most the slots drawn.
C21_SkipSlot ==
    (/\ pc = "launch"
     /\ slot < n_flows
     /\ eligible_flows(entity_states, active_entities, global_clock) = {})
        => /\ pc' = "launch"
           /\ slot' = slot + 1
           /\ UNCHANGED <<active_flows, next_sid, abort_exc, outputs, entity_states,
                          active_entities, ti, tj, global_clock>>

C21_NoEligibleFlowSkipped ==
    /\ [][C21_SkipSlot]_vars
    /\ [](pc \in {"launch", "while", "pass"} =>
             /\ slot <= n_flows
             /\ Len(active_flows) + Len(removed) <= slot)
    /\ [](Len(active_flows) <= n_flows)

\* C21 witness: a run in which every slot of every tick found no eligible
\* flow has reached the horizon and closed its outputs without starting a
\* flow.
C21_Witness ==
    /\ pc = "done"
    /\ n_flows = NFlows
    /\ next_sid = 0
    /\ abort_exc = "none"
    /\ closed = 1..NOutputs

\* C22: when the registered flows have zero total weight, the run is
\* rejected with a ConfigurationError before it starts: it never leaves its
\* initial position except to stop with that error, no tick begins, no
\* entity is registered and no event is written.
C22_ZeroWeightRejectedBeforeStart ==
    SumWeights(flows) = 0 =>
        /\ pc \in {"init", "aborted"}
        /\ pc = "aborted" => abort_exc = "ConfigurationError"
        /\ \A k \in Keys : ~Registered(entity_states, k)
        /\ \A o \in 1..NOutputs : outputs[o] = <<>>

\* C23: the global clock only moves forward, to start_time plus a whole
\* number of time steps below end_time; ti never passes end_time; inside a
\* tick the window is [ti, tj) with tj the smaller of ti + TimeStep and
\* end_time, so the last window ends exactly at end_time; the next window
\* starts where the previous one ended, the first starts at start_time and
\* the run is done only when ti has reached end_time.
C23_InTick == pc \in {"launch", "while", "pass"}

C23_OnGrid(t) == (t - start_time) % TimeStep = 0

C23_ClockAndWindows ==
    /\ [](/\ start_time <= ti /\ ti <= end_time
          /\ start_time <= global_clock /\ global_clock < end_time
          /\ C23_OnGrid(global_clock)
          /\ C23_OnGrid(ti) \/ ti = end_time)
    /\ [](C23_InTick =>
             /\ global_clock = ti
             /\ ti < tj
             /\ tj <= end_time
             /\ tj = ti + TimeStep \/ (tj = end_time /\ end_time < ti + TimeStep))
    /\ [][global_clock' # global_clock => global_clock' > global_clock]_vars
    /\ [][ti' # ti => (C23_InTick /\ ti' = tj /\ ti' > ti)]_vars
    /\ [][(pc = "tick" /\ pc' = "launch") => (ti = tj \/ ti = start_time)]_vars
    /\ [](pc = "done" => ti = end_time)

\* C23 witness: the run is inside a last tick whose window is shorter than
\* a time step and ends at end_time.
C23_Witness ==
    /\ pc = "pass"
    /\ ti > start_time
    /\ global_clock = ti
    /\ tj = end_time
    /\ tj - ti < TimeStep

\* C24: the flow clock of a flow starts inside the window [ti, tj) of the
\* tick that started the flow, never decreases from one step of the run to
\* the next, whether the flow stays in active_flows or is removed, and is at
\* least ti as long as the tick of the flow lasts.
C24_Started ==
    (pc = "launch" /\ Len(active_flows') = Len(active_flows) + 1) =>
        LET fi == active_flows'[Len(active_flows')]
        IN /\ ti <= fi.flow_clock
           /\ fi.flow_clock < tj
           /\ fi.ip = 1

C24_NeverBack ==
    \A i \in 1..Len(active_flows) :
        /\ \A j \in 1..Len(active_flows') :
              active_flows'[j].sid = active_flows[i].sid
                 => active_flows'[j].flow_clock >= active_flows[i].flow_clock
        /\ \A j \in 1..Len(removed') :
              removed'[j].sid = active_flows[i].sid
                 => removed'[j].flow_clock >= active_flows[i].flow_clock

C24_FlowClock ==
    /\ [][C24_Started]_vars
    /\ [][C24_NeverBack]_vars
    /\ [](C23_InTick =>
             /\ \A i \in 1..Len(active_flows) : active_flows[i].flow_clock >= ti
             /\ \A i \in 1..Len(removed) : removed[i].flow_clock >= ti)

\* C25: every output receives every event once, and all outputs hold the
\* same sequence: a step that processes a NewEvent without stopping the run
\* appends the event of the stepping flow at the end of every output, no
\* other step touches an output, all outputs are equal at all times, and no
\* event occurs twice in an output.
C25_EmitStep ==
    IF AtIntent /\ Intent.kind = "NewEvent" /\ pc' # "aborted"
    THEN \A o \in 1..NOutputs : outputs'[o] = Append(outputs[o], Event(Stepped))
    ELSE outputs' = outputs

C25_SameEventsEverySink ==
    /\ [][C25_EmitStep]_vars
    /\ [](\A o \in 1..NOutputs :
             /\ outputs[o] = outputs[1]
             /\ \A i, j \in 1..Len(outputs[o]) :
                   outputs[o][i] = outputs[o][j] => i = j)

\* C25 witness: the run is done and the last output holds events of two
\* flows, the events of the second between those of the first.
C25_Witness ==
    /\ pc = "done"
    /\ NOutputs > 1
    /\ \E i, j, k \in 1..Len(outputs[NOutputs]) :
          /\ i < j /\ j < k
          /\ outputs[NOutputs][i].sys__sid = outputs[NOutputs][k].sys__sid
          /\ outputs[NOutputs][j].sys__sid # outputs[NOutputs][i].sys__sid

\* C26: the events of an output are in the order of their timestamps: an
\* event never follows, in an output, an event with a later sys__ets.
C26_TimeOrdered ==
    \A o \in 1..NOutputs :
        \A i, j \in 1..Len(outputs[o]) :
            i < j => outputs[o][i].sys__ets <= outputs[o][j].sys__ets

\* C27: two runs with the same flows, the same initial entities and the
\* same draws of the seeded generator write identical events.  What the
\* draws decide is carried by an event itself (flow, position in the body,
\* timestamp, number of the flow among the flows started), so the statement
\* requires the session id of an event to be determined by that number: it
\* is the id the run on the first uuid stream gives to the flow.
C27_SameDrawsSameEvents ==
    \A o \in 1..NOutputs :
        \A i \in 1..Len(outputs[o]) :
            outputs[o][i].sys__sid = outputs[o][i].ord

\* C28 (as amended): with one user whose balance is 1000, one slot, and one
\* flow that subtracts 100 from the user twice, does not decay and is ended
\* by the boundary of the tick, the user's balance is 800 once the flow is
\* removed, and the user has exactly five versions: the registration, the
\* one that records the flow name when the user is attached, the two
\* subtractions, and the one that clears the flow name at the removal.
C28_Scenario ==
    /\ flows = {1}
    /\ n_flows = 1
    /\ initial_entities = 1
    /\ next_sid = 1
    /\ Len(removed) = 1
    /\ removed[1].selected_entities["User"] = 1
    /\ removed[1].ip = 5
    /\ removed[1].why = <<"BoundaryExceeded">>

C28_Balance ==
    CurrentField(entity_states, <<"User", 1>>, "balance")

C29_Terminates == <>(pc = "done" /\ ti = end_time /\ closed = 1..NOutputs)

\* C30: a NewEvent with save_entity registers a new entity of that type, in
\* its default state at the global clock, and attaches it to the stepping
\* flow; and a later mutation of the same flow aimed at that type finds the
\* entity attached and registered, and is applied to it: it appends a
\* version with the updates and is not skipped.
C30_SaveStep ==
    (/\ AtIntent
     /\ Intent.kind = "NewEvent"
     /\ Intent.save_entity # "None"
     /\ pc' # "aborted")
        => LET t == Intent.save_entity
               key == <<t, FreshId(entity_states, t)>>
           IN /\ ~Registered(entity_states, key)
              /\ Registered(entity_states', key)
              /\ entity_states'[key][1].valid_from = global_clock
              /\ \A f \in DOMAIN DefaultState(t) :
                    entity_states'[key][1].state[f] = DefaultState(t)[f]
              /\ \A k \in Keys \ {key} :
                    Registered(entity_states', k) = Registered(entity_states, k)
              /\ active_flows'[idx].selected_entities[t] = key[2]

\* An earlier NewEvent of the body saved an entity of the type the intent
\* mutates, and the body did not write the attachment of that type since.
C30_SavedEarlier ==
    \E j \in 1..(Stepped.ip - 1) :
        LET body == Flows[Stepped.flow_def].body
        IN /\ body[j].kind = "NewEvent"
           /\ body[j].save_entity = Intent.mutate_type
           /\ \A l \in (j + 1)..(Stepped.ip - 1) :
                 body[l].kind \notin {"Attach", "Detach"}

C30_LaterStep ==
    (/\ AtIntent
     /\ Mutating
     /\ Intent.save_entity = "None"
     /\ C30_SavedEarlier)
        => LET key == <<Intent.mutate_type,
                        Stepped.selected_entities[Intent.mutate_type]>>
           IN /\ key[2] # 0
              /\ Registered(entity_states, key)
              /\ pc' = pc
              /\ C17_Post(key, Intent.updates, Stepped.flow_clock)
              /\ \A n \in 1..Len(Intent.updates) :
                    Intent.updates[n][2] = "add" =>
                       CurrentField(entity_states', key, Intent.updates[n][1]) > 0

C30_SavedEntityMutated ==
    /\ [][C30_SaveStep]_vars
    /\ [][C30_LaterStep]_vars

\* C30 witness: a user that a flow created with save_entity carries the
\* update of the flow's later SetState.
C30_Witness ==
    \E k \in Keys :
        /\ k[1] = "User"
        /\ k[2] > initial_entities
        /\ Registered(entity_states, k)
        /\ CurrentField(entity_states, k, "visits") = 1

\* C36: the history is append-only.  A step of the store changes the
\* version list of at most one entity; no list gets shorter; every version
\* that existed keeps its fields and its valid_from, and its valid_to
\* changes only for the current version of the entity, from None to the
\* time at which the appended version starts (to the time of the call when
\* the call fails); hence the version found for a time earlier than the
\* start of an appended version is the same before and after the step.
C36_KeptVersion(k, i) ==
    LET old == entity_states[k][i]
        new == entity_states'[k][i]
    IN /\ new.state = old.state
       /\ new.valid_from = old.valid_from
       /\ new.valid_to # old.valid_to =>
             /\ old.valid_to = NoneV
             /\ i = get_entity_state_current(entity_states, k)
             /\ Len(entity_states'[k]) > Len(entity_states[k]) =>
                   new.valid_to = entity_states'[k][Len(entity_states'[k])].valid_from

C36_Step ==
    /\ \A k, l \in Keys :
          (entity_states'[k] # entity_states[k] /\ entity_states'[l] # entity_states[l])
             => k = l
    /\ \A k \in Keys :
          /\ Len(entity_states'[k]) >= Len(entity_states[k])
          /\ Len(entity_states'[k]) <= Len(entity_states[k]) + 1
          /\ \A i \in 1..Len(entity_states[k]) : C36_KeptVersion(k, i)
          /\ Len(entity_states'[k]) > Len(entity_states[k]) =>
                \A t \in 0..MaxTime :
                    t < entity_states'[k][Len(entity_states'[k])].valid_from =>
                       get_entity_state(entity_states', k, t)
                          = get_entity_state(entity_states, k, t)

C38_AtomicOnFailure ==
    [][\A k \in StoreKeys, u \in UpdateLists, t \in 0..MaxTime :
          (/\ insert_state(k, u, t)
           /\ insert_state_exc(entity_states, k, u) = "TypeError")
             => entity_states'[k] = entity_states[k]]_vars

\* C35: availability at a time t is decided on the version valid at t: the
\* available entities of a type at t are the queried ones whose version at
\* t carries no flow name.
C35_ClaimAt(k, t) ==
    StateGet(entity_states[k][get_entity_state(entity_states, k, t)].state,
             "flow_name")

C35_AvailableByVersion ==
    \A type \in Types : \A t \in start_time..end_time :
        get_available_entities(entity_states, active_entities, type, <<>>, t)
           = {k \in query(entity_states, type, <<>>, t) : C35_ClaimAt(k, t) = NoneV}

C40_StartedBeforeStepped ==
    pc = "launch" =>
        \A i \in 1..Len(active_flows) :
            /\ active_flows[i].ip = 1
            /\ active_flows[i].active
            /\ \A j \in 1..Len(active_flows) :
                  i < j => active_flows[i].ord < active_flows[j].ord

C40_OneEach ==
    (pc = "pass" /\ idx <= Len(active_flows) /\ pc' # "aborted") =>
        /\ idx' = idx + 1
        /\ pc' = "pass"
        /\ Len(active_flows') = Len(active_flows)
        /\ \A i \in 1..Len(active_flows) :
              i # idx => active_flows'[i] = active_flows[i]
        /\ active_flows'[idx].ip =
              IF AtIntent THEN Stepped.ip + 1
              ELSE IF active_flows[idx].active THEN Stepped.ip
              ELSE active_flows[idx].ip

C40_StaysScheduled ==
    (pc = "pass" /\ pc' = "while") =>
        \A i \in 1..Len(active_flows) :
            active_flows[i].active =>
               \E j \in 1..Len(active_flows') :
                   /\ active_flows'[j] = active_flows[i]
                   /\ \A l \in 1..(j - 1) : active_flows'[l].ord < active_flows[i].ord

C40_RoundRobin ==
    /\ []C40_StartedBeforeStepped
    /\ [][C40_OneEach]_vars
    /\ [][C40_StaysScheduled]_vars

\* C39: when a flow is removed from active_flows, every entity that
\* add_entity attached to it at any point (the one selected by its filter,
\* the ones its events saved) is released: its current version carries no
\* flow name, also when a later entity of the same type took its place in
\* selected_entities.
C39_AllAttachedReleased ==
    [][(pc = "pass" /\ pc' = "while") =>
          \A r \in (Len(removed) + 1)..Len(removed') :
              \A k \in removed'[r].attached :
                  CurrentField(entity_states', k, "flow_name") = NoneV]_vars

(***************************************************************************)
(* Entity objects (base.py): construction and update_state, on the Trader  *)
(* class of tests/test_trading.py.  True and False are 1 and 0.            *)
(***************************************************************************)

MaxCalls == 2

\* Trader.primary_key
primary_key == "trader_id"

\* Trader._state_fields: the default and the from_field of each StateField.
\* from_field "" stands for no from_field.
state_fields ==
    [is_logged_in    |-> [default |-> 0,     from_field |-> ""],
     current_balance |-> [default |-> NoneV, from_field |-> "initial_balance"],
     total_trades    |-> [default |-> 0,     from_field |-> ""]]

\* Names that are no StateField: setattr stores them in the instance dict.
OtherAttrs == {"username"}

\* The value of an attribute the instance dict does not hold.
Unset == 0 - 98

\* Keyword arguments of the constructor: the primary key and the from_field
\* source, each given or not.
TraderKwargs ==
    { [trader_id |-> 1, initial_balance |-> 10],
      [trader_id |-> 2, initial_balance |-> 10],
      [trader_id |-> 1],
      [initial_balance |-> 10],
      [username |-> 3] }

\* Entity.__init__
Entity(kwargs) ==
    [_state |->
        [field_name \in DOMAIN state_fields |->
            LET field == state_fields[field_name]
            IN IF field.from_field # "" /\ field.from_field \in DOMAIN kwargs
               THEN kwargs[field.from_field]
               ELSE field.default],
     _primary_key_value |->
        IF primary_key \in DOMAIN kwargs THEN kwargs[primary_key] ELSE NoneV,
     attrs |-> [a \in OtherAttrs |-> Unset],
     exc |-> ""]

\* Entity.get_primary_key
get_primary_key(e) == e._primary_key_value

\* getattr(self, field, 0): StateField.__get__ for a state field, the
\* instance dict otherwise, 0 when the name is not set.
getattr(e, field) ==
    IF field \in DOMAIN state_fields THEN e._state[field]
    ELSE IF e.attrs[field] # Unset THEN e.attrs[field]
    ELSE 0

\* setattr(self, field, value): StateField.__set__ for a state field, the
\* instance dict otherwise.
setattr(e, field, value) ==
    IF field \in DOMAIN state_fields
    THEN [e EXCEPT !._state[field] = value]
    ELSE [e EXCEPT !.attrs[field] = value]

\* The loop of update_state from update i on.  An add or subtract on a field
\* holding None raises TypeError out of the loop; the updates before it stay.
RECURSIVE update_state_from(_, _, _)
update_state_from(e, updates, i) ==
    IF i > Len(updates) THEN e
    ELSE LET field == updates[i][1]
             operation == updates[i][2]
             value == updates[i][3]
             current == getattr(e, field)
         IN IF operation = "is"
            THEN update_state_from(setattr(e, field, value), updates, i + 1)
            ELSE IF operation \in {"add", "subtract"}
            THEN IF current = NoneV
                 THEN [e EXCEPT !.exc = "TypeError"]
                 ELSE update_state_from(
                        setattr(e, field,
                                IF operation = "add" THEN current + value
                                ELSE current - value),
                        updates, i + 1)
            ELSE update_state_from(e, updates, i + 1)

\* An update_state that walks the list from its last update to its first.
RECURSIVE update_state_Backwards(_, _)
update_state_Backwards(e, updates) ==
    IF updates = <<>> THEN [e EXCEPT !.exc = ""]
    ELSE update_state_from(
            update_state_Backwards(e, Tail(updates)), <<Head(updates)>>, 1)

\* Entity.update_state; exc records how the call ended.
update_state(e, updates) ==
    update_state_from([e EXCEPT !.exc = ""], updates, 1)

\* Update lists handed to update_state.
TraderUpdates ==
    { << <<"is_logged_in", "is", 1>>, <<"total_trades", "add", 3>>,
         <<"current_balance", "subtract", 5>> >>,
      << <<"total_trades", "is", 5>>, <<"total_trades", "add", 1>> >>,
      << <<"total_trades", "add", 1>>, <<"total_trades", "is", 5>> >>,
      << <<"total_trades", "subtract", 2>> >>,
      << <<"is_logged_in", "is", 0>>, <<"current_balance", "add", 1>> >>,
      << <<"current_balance", "is", 7>> >>,
      << <<"username", "add", 4>> >>,
      << <<"total_trades", "toggle", 9>> >>,
      <<>> }

EntityInit ==
    /\ SimIdle
    /\ \E kwargs \in TraderKwargs : entity = Entity(kwargs)
    /\ calls = <<>>
    /\ flow_ctx = NoneV
    /\ new_event = NoneV
    /\ event = NoneV

\* One call entity.update_state(updates).
UpdateState(updates) ==
    /\ Len(calls) < MaxCalls
    /\ entity' = update_state(entity, updates)
    /\ calls' = Append(calls, updates)
    /\ UNCHANGED <<run_vars, store_vars, flow_ctx, new_event, event>>

EntityNext == \E updates \in TraderUpdates : UpdateState(updates)

EntitySpec == EntityInit /\ [][EntityNext]_vars

\* The value field f holds after the first n updates of u, from value v:
\* the last of them that names f decides, on top of what came before it.
RECURSIVE C33_After(_, _, _, _)
C33_After(v, u, f, n) ==
    IF n = 0 THEN v
    ELSE LET before == C33_After(v, u, f, n - 1)
         IN CASE u[n][1] = f /\ u[n][2] = "is" -> u[n][3]
              [] u[n][1] = f /\ u[n][2] = "add" -> before + u[n][3]
              [] u[n][1] = f /\ u[n][2] = "subtract" -> before - u[n][3]
              [] OTHER -> before

\* C33: an update_state call that returns leaves every state field with the
\* value its 'is', 'add' and 'subtract' updates give it in list order, a
\* field no update names with the value it had, and the primary key as the
\* constructor set it.
C33_UpdateState ==
    [][\A updates \in TraderUpdates :
          (UpdateState(updates) /\ entity'.exc = "") =>
              /\ \A f \in DOMAIN state_fields :
                    entity'._state[f] =
                        C33_After(entity._state[f], updates, f, Len(updates))
              /\ get_primary_key(entity') = get_primary_key(entity)]_vars

\* C33: a trader built with initial_balance 10 and trader_id 1 has had
\* ("total_trades", "is", 5), ("total_trades", "add", 1) applied in that
\* order: total_trades is 6, the balance is still 10, the key still 1.
C33_Witness ==
    /\ calls = << << <<"total_trades", "is", 5>>, <<"total_trades", "add", 1>> >> >>
    /\ entity.exc = ""
    /\ entity._state.total_trades = 6
    /\ entity._state.current_balance = 10
    /\ entity._state.is_logged_in = 0
    /\ get_primary_key(entity) = 1

(***************************************************************************)
(* Event construction (simulation.py, _process_new_event) on the schemas   *)
(* of tests/test_multi_entity_flows.py and test_now_faker.py.  An event    *)
(* data dict is a function from the schema's field names to values; NoneV  *)
(* stands for a key the dict does not hold.                                *)
(***************************************************************************)

\* BaseEvent's own fields with their generator hints ("" for none).
BaseEvent == [sys__eid |-> "uuid4", sys__ets |-> "", sys__sid |-> ""]

\* The fields BaseEvent gives a default.
Defaulted == {"sys__ets", "sys__sid"}

\* model_fields of a schema: BaseEvent's fields and the schema's own.
model_fields(own) ==
    [f \in (DOMAIN BaseEvent) \cup (DOMAIN own) |->
        IF f \in DOMAIN own THEN own[f] ELSE BaseEvent[f]]

EventSchemas ==
    [UserRegistered   |-> model_fields([user_id |-> "uuid4",
                                        registered_at |-> "now"]),
     DeviceRegistered |-> model_fields([device_id |-> "uuid4",
                                        user_id |-> "",
                                        registered_at |-> "date_time"]),
     UserLoggedIn     |-> model_fields([user_id |-> "",
                                        device_id |-> "",
                                        login_time |-> "date_time"])]

\* Entity.primary_key of the entity classes.
PrimaryKey == [User |-> "user_id", Device |-> "device_id"]

\* Values the random generators (uuid4, date_time) can return.
FakeValues == {50, 51}

\* Values of field overrides.
OverrideValues == {70}

\* Simulation._generate_event_data
_generate_event_data(event_schema, fakes, current_time) ==
    [field_name \in DOMAIN event_schema |->
        generate_fake_data(event_schema[field_name], fakes[field_name],
                           current_time)]

\* Simulation._populate_primary_keys_from_context: a field that holds no
\* value takes the id of the selected entity whose type has it as primary key.
_populate_primary_keys_from_context(event_data, event_schema, ctx) ==
    [field_name \in DOMAIN event_data |->
        IF event_data[field_name] # NoneV THEN event_data[field_name]
        ELSE LET matching == {entity_type \in Types :
                                /\ ctx.selected_entities[entity_type] # 0
                                /\ PrimaryKey[entity_type] = field_name}
             IN IF matching = {} THEN NoneV
                ELSE ctx.selected_entities[CHOOSE t \in matching : TRUE]]

\* An update that keeps the values the dict already holds.
dict_update_KeepHeld(event_data, field_overrides) ==
    [f \in (DOMAIN event_data) \cup (DOMAIN field_overrides) |->
        IF f \in DOMAIN event_data /\ event_data[f] # NoneV THEN event_data[f]
        ELSE IF f \in DOMAIN field_overrides THEN field_overrides[f]
        ELSE event_data[f]]

\* event_data.update(action.field_overrides)
dict_update(event_data, field_overrides) ==
    [f \in (DOMAIN event_data) \cup (DOMAIN field_overrides) |->
        IF f \in DOMAIN field_overrides THEN field_overrides[f]
        ELSE event_data[f]]

\* Simulation._populate_event_metadata
_populate_event_metadata(event_data, ctx, eid) ==
    [f \in DOMAIN event_data |->
        IF f = "sys__eid" THEN eid
        ELSE IF f = "sys__ets" THEN timestamp_ms(ctx.flow_clock)
        ELSE IF f = "sys__sid" THEN ctx.session_id
        ELSE event_data[f]]

\* action.event_schema(**event_data): a field without a default and without
\* a value fails the validation.
ValidationError(event_data) ==
    \E f \in DOMAIN event_data : f \notin Defaulted /\ event_data[f] = NoneV

\* The part of _process_new_event that builds the event.
build_event(action, ctx, fakes, eid) ==
    LET event_schema == EventSchemas[action.event_schema]
        generated == _generate_event_data(event_schema, fakes, ctx.flow_clock)
        populated == _populate_primary_keys_from_context(generated,
                                                         event_schema, ctx)
        overridden == dict_update(populated, action.field_overrides)
        event_data == _populate_event_metadata(overridden, ctx, eid)
    IN [generated |-> generated,
        data |-> event_data,
        exc |-> IF ValidationError(event_data) THEN "ValidationError" ELSE ""]

\* The overrides a NewEvent can carry for a schema: none, one field, or a
\* field and the session id.
FieldOverrides(schema_name) ==
    LET fs == DOMAIN EventSchemas[schema_name]
    IN {[f \in {} |-> 0]}
       \cup {[f \in {g} |-> v] : g \in fs, v \in OverrideValues}
       \cup {[f \in {g, "sys__sid"} |-> v] : g \in fs, v \in OverrideValues}

FlowClocks == 0..3

EventInit ==
    /\ SimIdle
    /\ entity = NoneV
    /\ calls = <<>>
    /\ event = NoneV
    /\ \E user \in {0} \cup UserIds, device \in {0} \cup DeviceIds,
          clock \in FlowClocks :
          flow_ctx = [selected_entities |-> [User |-> user, Device |-> device],
                      flow_clock |-> clock,
                      session_id |-> 1]
    /\ \E schema_name \in DOMAIN EventSchemas :
          \E field_overrides \in FieldOverrides(schema_name) :
             new_event = [event_schema |-> schema_name,
                          field_overrides |-> field_overrides]

\* One call _process_new_event(new_event, flow_ctx), up to the sending.
ProcessNewEvent ==
    /\ calls = <<>>
    /\ \E fakes \in [DOMAIN EventSchemas[new_event.event_schema] -> FakeValues],
          eid \in FakeValues :
          event' = build_event(new_event, flow_ctx, fakes, eid)
    /\ calls' = <<"_process_new_event">>
    /\ UNCHANGED <<run_vars, store_vars, entity, flow_ctx, new_event>>

EventNext == ProcessNewEvent

EventSpec == EventInit /\ [][EventNext]_vars

\* The fields _populate_event_metadata writes.
C31_Metadata == {"sys__eid", "sys__ets", "sys__sid"}

\* An event has been built and passed its schema's validation.
C31_Emitted == calls = <<"_process_new_event">> /\ event.exc = ""

\* Every field that got no generated value, is not overridden and is the
\* primary key of an attached entity type holds the attached entity's id.
C31_Populated ==
    \A f \in DOMAIN event.data, t \in Types :
        (/\ event.generated[f] = NoneV
         /\ f \notin DOMAIN new_event.field_overrides
         /\ flow_ctx.selected_entities[t] # 0
         /\ PrimaryKey[t] = f)
        => event.data[f] = flow_ctx.selected_entities[t]

\* Every overridden field among fs holds the override.
C31_Overridden(fs) ==
    \A f \in (DOMAIN new_event.field_overrides) \cap fs :
        event.data[f] = new_event.field_overrides[f]

\* C31 as stated: in an emitted event every field without a generated value
\* that is the primary key of an attached entity type holds the attached
\* entity's id, and every overridden field holds its override.
C31_OverridesAlwaysWin ==
    C31_Emitted => (C31_Populated /\ C31_Overridden(DOMAIN event.data))

\* C31 amended: in an emitted event every field without a generated value
\* that is the primary key of an attached entity type holds the attached
\* entity's id; every overridden field other than sys__eid, sys__ets and
\* sys__sid holds its override, whatever was generated or populated for it;
\* sys__ets and sys__sid hold the clock in milliseconds and the session id
\* of the instance even when overridden.
C31_OverridesExceptMetadata ==
    C31_Emitted =>
        /\ C31_Populated
        /\ C31_Overridden((DOMAIN event.data) \ C31_Metadata)
        /\ event.data.sys__ets = timestamp_ms(flow_ctx.flow_clock)
        /\ event.data.sys__sid = flow_ctx.session_id

\* C31: a DeviceRegistered event of an instance with user 2 attached and no
\* device, emitted with device_id and sys__sid overridden: user_id, which has
\* no generator, is 2; device_id is the override and not the generated id;
\* sys__sid is the session id and not the override.
C31_Witness ==
    /\ C31_Emitted
    /\ new_event.event_schema = "DeviceRegistered"
    /\ DOMAIN new_event.field_overrides = {"device_id", "sys__sid"}
    /\ flow_ctx.selected_entities = [User |-> 2, Device |-> 0]
    /\ event.generated.user_id = NoneV
    /\ event.generated.device_id \in FakeValues
    /\ event.data.user_id = 2
    /\ event.data.device_id = new_event.field_overrides.device_id
    /\ event.data.sys__sid = flow_ctx.session_id
    /\ event.data.sys__sid # new_event.field_overrides.sys__sid

\* The sum of the decay durations of a body strictly between two positions.
RECURSIVE C32_DecaySum(_, _, _)
C32_DecaySum(body, from, to) ==
    IF from + 1 >= to THEN 0
    ELSE body[from + 1].delta + C32_DecaySum(body, from + 1, to)

\* A step that sends an event.
C32_Emits == AtIntent /\ Intent.kind = "NewEvent" /\ pc' # "aborted"

\* The event the step sends, and the earlier events of the same instance.
C32_Sent == outputs'[1][Len(outputs'[1])]
C32_Earlier ==
    {e \in 1..Len(outputs[1]) : outputs[1][e].sys__sid = C32_Sent.sys__sid}

\* C32 as stated: the sys__ets and the 'now' field of an emitted event are
\* the emitting flow's clock at that step, not before the simulation start;
\* and against every earlier event of the same flow both have not decreased
\* and have grown by exactly the decay durations between the two events.
C32_TimestampsAreTheClock ==
    [][C32_Emits =>
         /\ C32_Sent.sys__ets * UnitsPerMs = Stepped.flow_clock
         /\ C32_Sent.registered_at = Stepped.flow_clock
         /\ C32_Sent.sys__ets * UnitsPerMs >= start_time
         /\ \A e \in C32_Earlier :
               LET decays == C32_DecaySum(Flows[Stepped.flow_def].body,
                                          outputs[1][e].ip, C32_Sent.ip)
               IN /\ C32_Sent.sys__ets >= outputs[1][e].sys__ets
                  /\ (C32_Sent.sys__ets - outputs[1][e].sys__ets) * UnitsPerMs
                        = decays
                  /\ C32_Sent.registered_at - outputs[1][e].registered_at
                        = decays]_vars

\* C32 amended: the 'now' field of an emitted event is the emitting flow's
\* clock at that step and sys__ets is that clock cut to whole milliseconds;
\* the 'now' field is not before the simulation start and sys__ets less than
\* a millisecond before it; against every earlier event of the same flow
\* neither has decreased, the 'now' field has grown by exactly the decay
\* durations between the two events and sys__ets by that sum to within less
\* than a millisecond.
C32_TimestampsTruncated ==
    [][C32_Emits =>
         /\ C32_Sent.registered_at = Stepped.flow_clock
         /\ C32_Sent.sys__ets * UnitsPerMs <= Stepped.flow_clock
         /\ Stepped.flow_clock < (C32_Sent.sys__ets + 1) * UnitsPerMs
         /\ C32_Sent.registered_at >= start_time
         /\ (C32_Sent.sys__ets + 1) * UnitsPerMs > start_time
         /\ \A e \in C32_Earlier :
               LET decays == C32_DecaySum(Flows[Stepped.flow_def].body,
                                          outputs[1][e].ip, C32_Sent.ip)
                   grown == (C32_Sent.sys__ets - outputs[1][e].sys__ets)
                               * UnitsPerMs
               IN /\ C32_Sent.sys__ets >= outputs[1][e].sys__ets
                  /\ C32_Sent.registered_at >= outputs[1][e].registered_at
                  /\ C32_Sent.registered_at - outputs[1][e].registered_at
                        = decays
                  /\ grown - decays < UnitsPerMs
                  /\ decays - grown < UnitsPerMs]_vars

\* C32 witness: an output holds two events of one flow with a decay between
\* them, sent at clocks that are half a millisecond apart and of which the
\* first is not a whole number of milliseconds: the 'now' fields differ by
\* the decay, the sys__ets by a whole millisecond.
C32_Witness ==
    \E i, j \in 1..Len(outputs[1]) :
        /\ i < j
        /\ outputs[1][i].sys__sid = outputs[1][j].sys__sid
        /\ outputs[1][i].registered_at % UnitsPerMs # 0
        /\ outputs[1][j].registered_at - outputs[1][i].registered_at = 1
        /\ C32_DecaySum(Flows[outputs[1][i].flow_def].body,
                        outputs[1][i].ip, outputs[1][j].ip) = 1
        /\ outputs[1][j].sys__ets - outputs[1][i].sys__ets = 1

====
